---- MODULE Spec2Model ----
(***************************************************************************)
(* Model of the HNAP client of dlink_smart_plug.py: HNAPClient (login,     *)
(* device_actions, call, _bad_response, _update_nauth_token, soap) and     *)
(* NanoSOAPClient.call.  Coroutines are modelled by a per-caller stack of  *)
(* pending call() frames; the only suspension point is the HTTP round trip *)
(* inside NanoSOAPClient.call, so everything between two round trips is    *)
(* one atomic step.                                                        *)
(*                                                                         *)
(* Values.  Python None is the empty tuple; an optional scalar x is <<x>>. *)
(* A Python str whose characters matter (action URLs) is a sequence of     *)
(* one-character strings, so '' is <<>>.  _hmac is a symbolic injective    *)
(* digest.                                                                 *)
(***************************************************************************)
EXTENDS Integers, Sequences, FiniteSets, TLC

VARIABLES client, headers, clock, stack, sent, recv, result, active, budget,
          everLoggedIn

vars == <<client, headers, clock, stack, sent, recv, result, active, budget,
          everLoggedIn>>

(* bounds: the clock's range, the depth of the stack of call() frames, the  *)
(* number of operations a single caller starts                              *)
MaxClock == 1
MaxDepth == 3
MaxOps == 2

Callers == {1, 2}

(* ----------------------------------------------------------- basic values *)
None == <<>>
Some(x) == <<x>>
Truthy(v) == v # None

ACTION_BASE_URL == "http://purenetworks.com/HNAP1/"

username == "Admin"
password == "0000"

(* top-level methods a facade may pass to HNAPClient.call *)
Methods == {"Login", "GetCurrentPowerConsumption", "SetSocketSettings"}

(* _hmac(key, message): hmac.new(key, message).hexdigest().upper() *)
Hmac(key, message) == <<"hmac", key, message>>

(* ------------------------------------------------------- parsed responses *)
Dict(f) == [t |-> "dict", v |-> f]
NonePayload == [t |-> "none", v |-> <<>>]

Handshakes ==
  { [Challenge |-> "C1", PublicKey |-> "K1", Cookie |-> "S1"],
    [Challenge |-> "C2", PublicKey |-> "K2", Cookie |-> "S2"] }

Restrict(f, D) == [k \in D |-> f[k]]

ErrorPayload == Dict([ERROR |-> "ERROR"])

PhaseOnePayloads ==
  { Dict(hs @@ [LoginResult |-> "OK"]) : hs \in Handshakes }
  \cup { Dict(Restrict([Challenge |-> "C1", PublicKey |-> "K1",
                        Cookie |-> "S1", LoginResult |-> "OK"],
                       {"Challenge", "PublicKey", "Cookie", "LoginResult"} \ {k}))
         : k \in {"Challenge", "PublicKey", "Cookie"} }

PhaseTwoPayloads ==
  { Dict([LoginResult |-> r]) : r \in {"success", "SUCCESS", "failed"} }
  \cup { Dict([Other |-> "x"]) }

(* action URLs as character sequences *)
Url1 == <<"h", "/", "a">>
Url2 == <<"/", "b">>

SettingsPayloads ==
  { Dict([DeviceName |-> "plug",
          SOAPActions |-> Dict([string |-> [t |-> "list", v |-> <<Url1, Url2>>]])]),
    Dict([DeviceName |-> "plug",
          SOAPActions |-> Dict([string |-> [t |-> "str", v |-> Url1]])]),
    Dict([DeviceName |-> "plug", SOAPActions |-> NonePayload]),
    Dict([DeviceName |-> "plug"]) }

OtherPayloads == { Dict([Value |-> "12.5"]) }

Envelope(method, payload) ==
  "soap:Envelope" :> ("soap:Body" :> ((method \o "Response") :> payload))

(* what the device may put in the body of its answer to a request *)
PayloadsFor(req) ==
  {ErrorPayload, NonePayload} \cup
  (IF req.method = "Login"
     THEN (IF req.kwargs.Action = "request" THEN PhaseOnePayloads
                                            ELSE PhaseTwoPayloads)
     ELSE IF req.method = "GetDeviceSettings" THEN SettingsPayloads
     ELSE OtherPayloads)

AllWires(req) ==
  { [net |-> "error", text |-> None], [net |-> "timeout", text |-> None],
    [net |-> "ok", text |-> [xml |-> FALSE, doc |-> None]] }
  \cup { [net |-> "ok", text |-> [xml |-> TRUE, doc |-> Envelope(req.method, pl)]]
         : pl \in PayloadsFor(req) }
  \cup { [net |-> "ok", text |-> [xml |-> TRUE, doc |-> ("html" :> NonePayload)]],
         [net |-> "ok",
          text |-> [xml |-> TRUE,
                    doc |-> Envelope("Fault", Dict([faultstring |-> "x"]))]] }

(* one answer of each kind that changes what interleaved callers do next:   *)
(* an ERROR marker (which clears the key), each handshake, accepted and     *)
(* rejected credentials, a settings payload with a list of actions, a plain *)
(* result                                                                   *)
CorePayloads ==
  {ErrorPayload}
  \cup { Dict(hs @@ [LoginResult |-> "OK"]) : hs \in Handshakes }
  \cup { Dict([LoginResult |-> r]) : r \in {"success", "failed"} }
  \cup { Dict([DeviceName |-> "plug",
               SOAPActions |-> Dict([string |-> [t |-> "list", v |-> <<Url1, Url2>>]])]) }
  \cup OtherPayloads

CoreWires(req) ==
  { [net |-> "ok", text |-> [xml |-> TRUE, doc |-> Envelope(req.method, pl)]]
    : pl \in PayloadsFor(req) \cap CorePayloads }

(* what the device may put on the wire in answer to a request; with        *)
(* interleaved callers the answers are the core ones                        *)
WireResponses(req) ==
  IF Cardinality(active) = 1 THEN AllWires(req) ELSE CoreWires(req)

(* ------------------------------------------------------- NanoSOAPClient *)
Raise(kind, why) == [exc |-> kind, why |-> why, ret |-> NonePayload, bad |-> FALSE]
Return(v) == [exc |-> "none", why |-> "", ret |-> v, bad |-> FALSE]

NanoCall_EmptyWithoutEnvelope(method, wire) ==
  IF wire.net = "error" THEN Raise("ClientError", "http")
  ELSE IF wire.net = "timeout" THEN Raise("TimeoutError", "timeout")
  ELSE IF ~wire.text.xml THEN Raise("ExpatError", "not xml")
  ELSE LET parsed == wire.text.doc IN
       IF "soap:Envelope" \notin DOMAIN parsed
         THEN Return(Dict(<<>>))
       ELSE IF (method \o "Response") \notin DOMAIN parsed["soap:Envelope"]["soap:Body"]
         THEN Raise("KeyError", method \o "Response")
       ELSE Return(parsed["soap:Envelope"]["soap:Body"][method \o "Response"])

(* NanoSOAPClient.call after the request has been posted *)
NanoCall(method, wire) ==
  IF wire.net = "error" THEN Raise("ClientError", "http")
  ELSE IF wire.net = "timeout" THEN Raise("TimeoutError", "timeout")
  ELSE IF ~wire.text.xml THEN Raise("ExpatError", "not xml")
  ELSE LET parsed == wire.text.doc IN
       IF "soap:Envelope" \notin DOMAIN parsed
         THEN Raise("Exception", "probably a bad response")
       ELSE IF (method \o "Response") \notin DOMAIN parsed["soap:Envelope"]["soap:Body"]
         THEN Raise("KeyError", method \o "Response")
       ELSE Return(parsed["soap:Envelope"]["soap:Body"][method \o "Response"])

(* --------------------------------------------------------- HNAPClient *)
ClientInit ==
  [logged_in |-> FALSE, actions |-> None, _private_key |-> None,
   _cookie |-> None, _auth_token |-> None, _timestamp |-> None,
   settings |-> None]

HeadersInit == [Cookie |-> None, HNAP_AUTH |-> None]

BadResponse_ResetsLogin(c) ==
  [c EXCEPT !._private_key = None, !.logged_in = FALSE]

BadResponse_KeepsKey(c) == c

(* _bad_response: reset the private key (the raise is in CallOutcome) *)
BadResponse(c) == [c EXCEPT !._private_key = None]

UpdateNauthToken_KeepsTimestamp(c, action, now) ==
  IF ~Truthy(c._private_key) THEN c
  ELSE [c EXCEPT !._timestamp = IF @ = None THEN Some(now) ELSE @,
                 !._auth_token = Hmac(c._private_key,
                                      <<now, "\"", ACTION_BASE_URL, action, "\"">>)]

(* _update_nauth_token(action) at time now *)
UpdateNauthToken(c, action, now) ==
  IF ~Truthy(c._private_key) THEN c
  ELSE [c EXCEPT !._timestamp = Some(now),
                 !._auth_token = Hmac(c._private_key,
                                      <<now, "\"", ACTION_BASE_URL, action, "\"">>)]

Soap_CookieOnlyOnce(c, h) ==
  LET h1 == IF Truthy(c._cookie) /\ h.Cookie = None
              THEN [h EXCEPT !.Cookie = Some("uid=" \o c._cookie[1])] ELSE h
  IN IF Truthy(c._auth_token)
       THEN [h1 EXCEPT !.HNAP_AUTH = Some(<<c._auth_token, c._timestamp[1]>>)]
       ELSE h1

Soap_TokenOnlyOnce(c, h) ==
  LET h1 == IF Truthy(c._cookie)
              THEN [h EXCEPT !.Cookie = Some("uid=" \o c._cookie[1])] ELSE h
  IN IF Truthy(c._auth_token) /\ h.HNAP_AUTH = None
       THEN [h1 EXCEPT !.HNAP_AUTH = Some(<<c._auth_token, c._timestamp[1]>>)]
       ELSE h1

(* soap(): push cookie and token into the transport's headers *)
Soap(c, h) ==
  LET h1 == IF Truthy(c._cookie)
              THEN [h EXCEPT !.Cookie = Some("uid=" \o c._cookie[1])] ELSE h
  IN IF Truthy(c._auth_token)
       THEN [h1 EXCEPT !.HNAP_AUTH = Some(<<c._auth_token, c._timestamp[1]>>)]
       ELSE h1

CallNeedsLogin_Always(c, method) == method # "Login"

CallNeedsLogin_SingleFlight(c, method) ==
  /\ method # "Login"
  /\ c._private_key = None
  /\ \A q \in Callers : stack[q] = <<>>

CallNeedsLogin_Never(c, method) == FALSE

(* call(): the lazy-login test of line 105 *)
CallNeedsLogin(c, method) == ~Truthy(c._private_key) /\ method # "Login"

(* 'ERROR' in result; a None result makes the test raise TypeError *)
InRaises(res) == res.t = "none"
HasError(res) == res.t = "dict" /\ "ERROR" \in DOMAIN res.v

CallOutcome_OnlyErrorField(method, wire) ==
  LET t == NanoCall(method, wire) IN
  IF t.exc # "none" THEN t
  ELSE IF InRaises(t.ret) \/ HasError(t.ret)
    THEN [Raise("Exception", "got error response from device") EXCEPT !.bad = TRUE]
  ELSE t

(* call(), lines 110-115: what the awaited transport call ends in.  Every   *)
(* exception inside the try, the one raised by _bad_response included, is   *)
(* caught by the bare except, which calls _bad_response again; bad tells    *)
(* that _bad_response ran.                                                  *)
CallOutcome(method, wire) ==
  LET t == NanoCall(method, wire) IN
  IF t.exc # "none"
    THEN [Raise("Exception", "got error response from device") EXCEPT !.bad = TRUE]
  ELSE IF InRaises(t.ret) \/ HasError(t.ret)
    THEN [Raise("Exception", "got error response from device") EXCEPT !.bad = TRUE]
  ELSE t

(* login(): the except clause of lines 84-85 *)
LoginExcept(o) ==
  IF o.exc = "ExpatError"
    THEN Raise("AuthenticationError", "Bad response from device")
    ELSE o

(* str.lower() on the LoginResult strings of the model *)
Lower(s) ==
  CASE s = "SUCCESS" -> "success"
    [] s = "Success" -> "success"
    [] OTHER -> s

(* login(), line 78 *)
LoginRejected(resp) == Lower(resp.v.LoginResult) # "success"

(* x[x.rfind('/')+1:] *)
RFind(x, ch) ==
  LET hits == {i \in 1..Len(x) : x[i] = ch}
  IN IF hits = {} THEN -1 ELSE (CHOOSE i \in hits : \A j \in hits : j <= i) - 1

ActionName(x) == SubSeq(x, RFind(x, "/") + 2, Len(x))

(* list(map(lambda x: x[x.rfind('/')+1:], actions['SOAPActions']['string'])); *)
(* iterating a str yields its characters                                    *)
ActionNames(val) ==
  IF val.t = "list" THEN [i \in 1..Len(val.v) |-> ActionName(val.v[i])]
  ELSE [i \in 1..Len(val.v) |-> ActionName(<<val.v[i]>>)]

ActionsEmpty_Always(c) == TRUE

(* `not self.actions` *)
ActionsEmpty(c) == c.actions = None \/ c.actions[1] = <<>>

PhaseOneKw ==
  [Action |-> "request", Username |-> username, LoginPassword |-> <<>>,
   Captcha |-> ""]

PhaseTwoKw(digest) ==
  [Action |-> "login", Username |-> username, LoginPassword |-> digest,
   Captcha |-> ""]

PrivateKey_NoPassword(resp) ==
  Hmac(<<resp.v.PublicKey>>, resp.v.Challenge)

(* the private key of line 69 *)
PrivateKey(resp) ==
  Hmac(<<resp.v.PublicKey, password>>, resp.v.Challenge)

(* everLoggedIn is history: whether logged_in has been true at some time.   *)
(* A world is the part of the state one caller's step works on:            *)
(* c the client, h the transport headers, st the caller's stack of call()  *)
(* frames (the last awaits its response, the others wait in line 106 for   *)
(* their lazy login), sent the requests posted, out the outcome of the     *)
(* caller's operation once it has ended.                                   *)
Running == [exc |-> "running", why |-> "", ret |-> NonePayload, bad |-> FALSE]

Finish(w, o) == [w EXCEPT !.st = <<>>, !.out = o]

(* NanoSOAPClient.call up to session.post: headers copied, SOAPAction set *)
SendRequest(w, method, kwargs, ctx, now) ==
  LET h2 == Soap(w.c, w.h)
      req == [method |-> method, kwargs |-> kwargs, ctx |-> ctx,
              headers |-> [Cookie |-> h2.Cookie, HNAP_AUTH |-> h2.HNAP_AUTH,
                           SOAPAction |-> <<"\"", ACTION_BASE_URL, method, "\"">>],
              key |-> w.c._private_key, now |-> now,
              prevAuth |-> w.h.HNAP_AUTH]
  IN [w EXCEPT !.h = h2, !.sent = Append(@, req),
               !.st = Append(@, [method |-> method, kwargs |-> kwargs, ctx |-> ctx])]

(* call(), lines 108-110 *)
CallSend(w, method, kwargs, ctx, now) ==
  SendRequest([w EXCEPT !.c = UpdateNauthToken(w.c, method, now)],
              method, kwargs, ctx, now)

LoginStart_NoReset(w, now) ==
  CallSend(w, "Login", PhaseOneKw, "phase1", now)

(* login(), lines 58-61; call('Login') never takes the branch of line 106 *)
LoginStart(w, now) ==
  CallSend([w EXCEPT !.c.logged_in = FALSE], "Login", PhaseOneKw, "phase1", now)

(* call(), lines 105-110 *)
Call(w, method, kwargs, ctx, now) ==
  IF CallNeedsLogin(w.c, method)
    THEN LoginStart([w EXCEPT !.st = Append(@, [method |-> method,
                                                kwargs |-> kwargs, ctx |-> ctx])],
                    now)
    ELSE CallSend(w, method, kwargs, ctx, now)

(* login(), line 87, and the return into the caller of login() *)
LoginReturn(w, now) ==
  LET w1 == [w EXCEPT !.c.logged_in = TRUE] IN
  IF w1.st = <<>> THEN Finish(w1, Return(NonePayload))
  ELSE LET g == w1.st[Len(w1.st)]
       IN CallSend([w1 EXCEPT !.st = SubSeq(@, 1, Len(@) - 1)],
                   g.method, g.kwargs, g.ctx, now)

(* login(), lines 63-76 *)
LoginPhaseOne(w, resp, now) ==
  IF "Challenge" \notin DOMAIN resp.v THEN Finish(w, Raise("KeyError", "Challenge"))
  ELSE IF "PublicKey" \notin DOMAIN resp.v THEN Finish(w, Raise("KeyError", "PublicKey"))
  ELSE IF "Cookie" \notin DOMAIN resp.v THEN Finish(w, Raise("KeyError", "Cookie"))
  ELSE LET key == PrivateKey(resp)
           w1 == [w EXCEPT !.c._cookie = Some(resp.v.Cookie),
                           !.c._private_key = key]
       IN Call(w1, "Login", PhaseTwoKw(Hmac(key, resp.v.Challenge)), "phase2", now)

LoginPhaseTwo_ClearsKey(w, resp, now) ==
  IF "LoginResult" \notin DOMAIN resp.v
    THEN Finish(w, Raise("KeyError", "LoginResult"))
  ELSE IF LoginRejected(resp)
    THEN Finish([w EXCEPT !.c._private_key = None],
                Raise("AuthenticationError", "Incorrect username or password"))
  ELSE IF ActionsEmpty(w.c)
    THEN Call(w, "GetDeviceSettings", <<>>, "settings", now)
  ELSE LoginReturn(w, now)

(* login(), lines 78-82 *)
LoginPhaseTwo(w, resp, now) ==
  IF "LoginResult" \notin DOMAIN resp.v
    THEN Finish(w, Raise("KeyError", "LoginResult"))
  ELSE IF LoginRejected(resp)
    THEN Finish(w, Raise("AuthenticationError", "Incorrect username or password"))
  ELSE IF ActionsEmpty(w.c)
    THEN Call(w, "GetDeviceSettings", <<>>, "settings", now)
  ELSE LoginReturn(w, now)

DeviceActions_NoSettings(w, resp, now) ==
  IF "SOAPActions" \notin DOMAIN resp.v
    THEN Finish(w, Raise("KeyError", "SOAPActions"))
  ELSE IF resp.v.SOAPActions.t = "none"
    THEN Finish(w, Raise("TypeError", "NoneType"))
  ELSE LoginReturn([w EXCEPT !.c.actions =
                      Some(ActionNames(resp.v.SOAPActions.v.string))], now)

(* device_actions(), lines 92-94, then login(), lines 82 and 87 *)
DeviceActions(w, resp, now) ==
  LET w1 == [w EXCEPT !.c.settings = Some(resp)] IN
  IF "SOAPActions" \notin DOMAIN resp.v
    THEN Finish(w1, Raise("KeyError", "SOAPActions"))
  ELSE IF resp.v.SOAPActions.t = "none"
    THEN Finish(w1, Raise("TypeError", "NoneType"))
  ELSE LoginReturn([w1 EXCEPT !.c.actions =
                      Some(ActionNames(resp.v.SOAPActions.v.string))], now)

(* whether a frame of the stack runs inside the try of login() *)
InLoginTry(st, ctx) ==
  ctx \in {"phase2", "settings"} \/ \E i \in 1..Len(st) : st[i].ctx \in {"phase2", "settings"}

OnResponse_RetryOnce(w, f, wire, now) ==
  LET o == CallOutcome(f.method, wire)
      w1 == IF o.bad THEN [w EXCEPT !.c = BadResponse(w.c)] ELSE w
  IN IF o.exc # "none" /\ f.ctx = "top"
          /\ Cardinality({i \in 1..Len(w.sent) : w.sent[i].ctx = "top"}) = 1
       THEN CallSend(w1, f.method, f.kwargs, f.ctx, now)
     ELSE IF o.exc # "none"
       THEN Finish(w1, IF InLoginTry(w1.st, f.ctx) THEN LoginExcept(o) ELSE o)
     ELSE IF f.ctx = "phase1" THEN LoginPhaseOne(w1, o.ret, now)
     ELSE IF f.ctx = "phase2" THEN LoginPhaseTwo(w1, o.ret, now)
     ELSE IF f.ctx = "settings" THEN DeviceActions(w1, o.ret, now)
     ELSE Finish(w1, o)

(* the step of one caller on receipt of the response to its pending request *)
OnResponse(w, f, wire, now) ==
  LET o == CallOutcome(f.method, wire)
      w1 == IF o.bad THEN [w EXCEPT !.c = BadResponse(w.c)] ELSE w
  IN IF o.exc # "none"
       THEN Finish(w1, IF InLoginTry(w1.st, f.ctx) THEN LoginExcept(o) ELSE o)
     ELSE IF f.ctx = "phase1" THEN LoginPhaseOne(w1, o.ret, now)
     ELSE IF f.ctx = "phase2" THEN LoginPhaseTwo(w1, o.ret, now)
     ELSE IF f.ctx = "settings" THEN DeviceActions(w1, o.ret, now)
     ELSE Finish(w1, o)

(* ------------------------------------------------------------- the system *)
World(p) ==
  [c |-> client, h |-> headers, st |-> stack[p], sent |-> sent[p], out |-> Running]

Install(p, w, info) ==
  /\ client' = w.c
  /\ headers' = w.h
  /\ stack' = [stack EXCEPT ![p] = w.st]
  /\ sent' = [sent EXCEPT ![p] = w.sent]
  /\ result' = [result EXCEPT ![p] = info @@ w.out]
  /\ everLoggedIn' = (everLoggedIn \/ w.c.logged_in)

Idle(p) == stack[p] = <<>>

(* how the last operation of caller p ended (history, for the properties) *)
EndCause(p) ==
  IF result[p].exc = "init" THEN "none"
  ELSE LET t == NanoCall(sent[p][Len(sent[p])].method, recv[p][Len(recv[p])])
       IN IF t.exc # "none" THEN "transport"
          ELSE IF HasError(t.ret) THEN "ERROR"
          ELSE IF result[p].exc = "none" THEN "ok"
          ELSE "other"

Init ==
  /\ client = ClientInit
  /\ headers = HeadersInit
  /\ clock = 0
  /\ stack = [p \in Callers |-> <<>>]
  /\ sent = [p \in Callers |-> <<>>]
  /\ recv = [p \in Callers |-> <<>>]
  /\ result = [p \in Callers |->
                 [op |-> "none", method |-> "", keyAtStart |-> None, prev |-> "none",
                  exc |-> "init", why |-> "", ret |-> NonePayload, bad |-> FALSE]]
  /\ active = {1}
  /\ budget = [p \in Callers |-> IF p = 1 THEN MaxOps ELSE 0]
  /\ everLoggedIn = FALSE

InitConc ==
  /\ client = ClientInit
  /\ headers = HeadersInit
  /\ clock = 0
  /\ stack = [p \in Callers |-> <<>>]
  /\ sent = [p \in Callers |-> <<>>]
  /\ recv = [p \in Callers |-> <<>>]
  /\ result = [p \in Callers |->
                 [op |-> "none", method |-> "", keyAtStart |-> None, prev |-> "none",
                  exc |-> "init", why |-> "", ret |-> NonePayload, bad |-> FALSE]]
  /\ active = Callers
  /\ budget = [p \in Callers |-> 1]
  /\ everLoggedIn = FALSE

(* interleaved callers are interchangeable: they make their first          *)
(* invocation in the order of their index                                   *)
InTurn(p) == \A q \in active : q < p => result[q].op # "none"

(* datetime.now() advances *)
Tick ==
  /\ clock < MaxClock
  /\ clock' = clock + 1
  /\ UNCHANGED <<client, headers, stack, sent, recv, result, active, budget,
                 everLoggedIn>>

(* a facade invokes client.call(m, ...) *)
StartCall(p, m) ==
  /\ p \in active
  /\ Idle(p)
  /\ budget[p] > 0
  /\ InTurn(p)
  /\ budget' = [budget EXCEPT ![p] = @ - 1]
  /\ LET w0 == [World(p) EXCEPT !.sent = <<>>]
         kw == IF m = "Login" THEN PhaseOneKw ELSE [ModuleID |-> "1"]
     IN Install(p, Call(w0, m, kw, "top", clock),
                [op |-> "call", method |-> m, keyAtStart |-> client._private_key,
                 prev |-> EndCause(p)])
  /\ recv' = [recv EXCEPT ![p] = <<>>]
  /\ UNCHANGED <<clock, active>>

(* the program invokes client.login() *)
StartLogin(p) ==
  /\ p \in active
  /\ Idle(p)
  /\ budget[p] > 0
  /\ InTurn(p)
  /\ budget' = [budget EXCEPT ![p] = @ - 1]
  /\ LET w0 == [World(p) EXCEPT !.sent = <<>>]
     IN Install(p, LoginStart(w0, clock),
                [op |-> "login", method |-> "", keyAtStart |-> client._private_key,
                 prev |-> EndCause(p)])
  /\ recv' = [recv EXCEPT ![p] = <<>>]
  /\ UNCHANGED <<clock, active>>

(* the response to the pending request of caller p arrives *)
Receive(p, wire) ==
  /\ p \in active
  /\ ~Idle(p)
  /\ LET f == stack[p][Len(stack[p])]
         w0 == [World(p) EXCEPT !.st = SubSeq(@, 1, Len(@) - 1)]
         w1 == OnResponse(w0, f, wire, clock)
     IN /\ Len(w1.st) <= MaxDepth
        /\ Install(p, w1, [op |-> result[p].op, method |-> result[p].method,
                           keyAtStart |-> result[p].keyAtStart,
                           prev |-> result[p].prev])
  /\ recv' = [recv EXCEPT ![p] = Append(@, wire)]
  /\ UNCHANGED <<clock, active, budget>>

Next ==
  \/ Tick
  \/ \E p \in Callers, m \in Methods : StartCall(p, m)
  \/ \E p \in Callers : StartLogin(p)
  \/ \E p \in {q \in Callers : ~Idle(q)} :
       \E wire \in WireResponses(sent[p][Len(sent[p])]) : Receive(p, wire)

Spec == Init /\ [][Next]_vars

SpecConc == InitConc /\ [][Next]_vars

TypeOK ==
  /\ client.logged_in \in BOOLEAN
  /\ clock \in 0..MaxClock
  /\ \A p \in Callers : Len(stack[p]) <= MaxDepth

(* ------------------------------------------------------------ properties *)
Done(p) == Idle(p) /\ result[p].exc \notin {"init", "running"}

DeviceCallError(o) ==
  o.exc = "Exception" /\ o.why = "got error response from device"

IsPhaseOne(r) == r.method = "Login" /\ r.kwargs.Action = "request"
IsPhaseTwo(r) == r.method = "Login" /\ r.kwargs.Action = "login"

(* the HNAP_AUTH header a request signed for its own method at its own time *)
FreshAuth(r) ==
  Some(<<Hmac(r.key, <<r.now, "\"", ACTION_BASE_URL, r.method, "\"">>), r.now>>)

(* the parsed body of the i-th response received by caller p *)
Parsed(p, i) == NanoCall(sent[p][i].method, recv[p][i])

(* the device answered the i-th request of caller p successfully *)
Answered(p, i) ==
  LET r == sent[p][i]
      t == Parsed(p, i)
  IN /\ t.exc = "none"
     /\ t.ret.t = "dict"
     /\ "ERROR" \notin DOMAIN t.ret.v
     /\ r.ctx = "phase1" => {"Challenge", "PublicKey", "Cookie"} \subseteq DOMAIN t.ret.v
     /\ r.ctx = "phase2" =>
          /\ "LoginResult" \in DOMAIN t.ret.v
          /\ t.ret.v.LoginResult \in {"success", "SUCCESS"}
     /\ r.ctx = "settings" =>
          /\ "SOAPActions" \in DOMAIN t.ret.v
          /\ t.ret.v.SOAPActions.t = "dict"

AllAnswered(p) == \A i \in 1..Len(recv[p]) : Answered(p, i)

LazyCall(p) ==
  /\ result[p].op = "call"
  /\ result[p].method # "Login"
  /\ result[p].keyAtStart = None

(* C1: with a single caller and a device that answers every request        *)
(* successfully, a call(method), method # 'Login', begun with no private    *)
(* key sends exactly one phase-one and one phase-two Login before the       *)
(* request of the method, sends that request once, signed for the method    *)
(* with the private key derived from that login's challenge, and returns.   *)
C1_LazyLoginOnce ==
  \A p \in active :
    (LazyCall(p) /\ AllAnswered(p)) =>
      /\ Done(p) => /\ result[p].exc = "none"
                    /\ \E i \in 1..Len(sent[p]) : sent[p][i].ctx = "top"
      /\ \A i \in 1..Len(sent[p]) :
           sent[p][i].ctx = "top" =>
             /\ i = Len(sent[p])
             /\ sent[p][i].method = result[p].method
             /\ Cardinality({j \in 1..Len(sent[p]) : IsPhaseOne(sent[p][j])}) = 1
             /\ Cardinality({j \in 1..Len(sent[p]) : IsPhaseTwo(sent[p][j])}) = 1
             /\ IsPhaseOne(sent[p][1]) /\ IsPhaseTwo(sent[p][2])
             /\ sent[p][i].key = PrivateKey(Parsed(p, 1).ret)
             /\ sent[p][i].headers.HNAP_AUTH = FreshAuth(sent[p][i])

C1_Witness ==
  /\ LazyCall(1) /\ AllAnswered(1) /\ Done(1)
  /\ result[1].exc = "none"
  /\ Len(sent[1]) = 4
  /\ sent[1][4].ctx = "top"

(* C2: a response with an ERROR field makes call() clear the private key    *)
(* and fail instead of returning it, and the next call() of a method other  *)
(* than 'Login' begins with the phase-one Login request.                    *)
C2_ErrorClearsKeyAndRelogin ==
  \A p \in active :
    /\ \A i \in 1..Len(recv[p]) :
         (Parsed(p, i).exc = "none" /\ HasError(Parsed(p, i).ret)) =>
           /\ i = Len(recv[p])
           /\ Done(p)
           /\ DeviceCallError(result[p])
           /\ client._private_key = None
    /\ (result[p].prev = "ERROR" /\ result[p].op = "call"
          /\ result[p].method # "Login" /\ sent[p] # <<>>) =>
         /\ result[p].keyAtStart = None
         /\ IsPhaseOne(sent[p][1])
         /\ \A i \in 1..Len(sent[p]) : sent[p][i].ctx = "top" => i > 2

C2_Witness ==
  /\ result[1].prev = "ERROR"
  /\ result[1].op = "call"
  /\ result[1].method = "SetSocketSettings"
  /\ Len(sent[1]) = 4
  /\ sent[1][4].ctx = "top"

(* C3: a failure raised by the transport's call is caught by call(), which  *)
(* clears the private key and raises the generic device-call error; the     *)
(* private key is unset whenever an operation has ended in that error.      *)
C3_TransportFailureWrapped ==
  \A p \in active :
    /\ \A i \in 1..Len(recv[p]) :
         Parsed(p, i).exc # "none" =>
           /\ i = Len(recv[p])
           /\ Done(p)
           /\ DeviceCallError(result[p])
           /\ client._private_key = None
    /\ (Done(p) /\ DeviceCallError(result[p])) => client._private_key = None

C3_Witness ==
  /\ Done(1)
  /\ result[1].keyAtStart # None
  /\ Parsed(1, Len(recv[1])).exc = "ExpatError"
  /\ DeviceCallError(result[1])

Rejected(o) ==
  o.exc = "AuthenticationError" /\ o.why = "Incorrect username or password"

(* C4: when the phase-two Login response has LoginResult other than         *)
(* 'success', login() fails with AuthenticationError and the private key    *)
(* is unset when it exits.                                                  *)
C4_RejectedLoginUnauthenticated ==
  \A p \in active :
    (Done(p) /\ sent[p][Len(sent[p])].ctx = "phase2"
       /\ Parsed(p, Len(recv[p])).exc = "none"
       /\ Parsed(p, Len(recv[p])).ret.t = "dict"
       /\ "LoginResult" \in DOMAIN Parsed(p, Len(recv[p])).ret.v
       /\ Lower(Parsed(p, Len(recv[p])).ret.v.LoginResult) # "success") =>
      /\ Rejected(result[p])
      /\ client._private_key = None

(* C5: when the phase-two Login response has LoginResult # 'success',       *)
(* login() fails with AuthenticationError, and on exit the private key is   *)
(* still set, to the value derived from that attempt's challenge, while     *)
(* logged_in is false.                                                      *)
C5_RejectedLoginKeepsKey ==
  \A p \in active :
    (Done(p) /\ sent[p][Len(sent[p])].ctx = "phase2"
       /\ Parsed(p, Len(recv[p])).exc = "none"
       /\ Parsed(p, Len(recv[p])).ret.t = "dict"
       /\ "LoginResult" \in DOMAIN Parsed(p, Len(recv[p])).ret.v
       /\ Parsed(p, Len(recv[p])).ret.v.LoginResult \notin {"success", "SUCCESS"}) =>
      /\ Rejected(result[p])
      /\ client._private_key # None
      /\ sent[p][Len(sent[p]) - 1].ctx = "phase1"
      /\ client._private_key = PrivateKey(Parsed(p, Len(recv[p]) - 1).ret)
      /\ client.logged_in = FALSE

C5_Witness ==
  /\ Done(1)
  /\ Rejected(result[1])
  /\ result[1].op = "login"
  /\ result[1].prev = "ok"
  /\ client.actions # None

(* C6: if the response to a Login request or to the GetDeviceSettings       *)
(* request of login() cannot be parsed as XML, login() fails with           *)
(* AuthenticationError ('bad response from device').                        *)
C6_UnparsableLoginResponse ==
  \A p \in active :
    (Done(p) /\ sent[p][Len(sent[p])].ctx \in {"phase1", "phase2", "settings"}
       /\ Parsed(p, Len(recv[p])).exc = "ExpatError") =>
      /\ result[p].exc = "AuthenticationError"
      /\ result[p].why = "Bad response from device"

(* C7: whatever the device does, call() returns the parsed response or      *)
(* fails with AuthenticationError or the device-call error.                 *)
C7_OnlyDeclaredErrors ==
  \A p \in active :
    (Done(p) /\ result[p].op = "call") =>
      \/ /\ result[p].exc = "none"
         /\ result[p].ret = Parsed(p, Len(recv[p])).ret
      \/ result[p].exc = "AuthenticationError"
      \/ DeviceCallError(result[p])

C8_WitnessSigned ==
  /\ sent[1] # <<>>
  /\ sent[1][1].ctx = "phase1"
  /\ sent[1][1].key # None
  /\ sent[1][1].now > 0

C10_KeyOnlyAfterCompletedLogin ==
  \A p \in active :
    (~Idle(p) /\ stack[p][Len(stack[p])].ctx = "phase2") =>
      client._private_key = None

(* a step in which caller p received the response to its pending request *)
Received(p) == ~Idle(p) /\ Len(recv[p]') = Len(recv[p]) + 1

(* C10 as amended: the private key becomes set, or is replaced, only in     *)
(* login() on receipt of a phase-one response with Challenge, PublicKey     *)
(* and Cookie, before the phase-two request is sent, and it becomes unset   *)
(* only in _bad_response.                                                   *)
C10_KeyChanges ==
  [][ client._private_key' # client._private_key =>
        \E p \in active :
          /\ Received(p)
          /\ LET f == stack[p][Len(stack[p])]
                 wire == recv[p]'[Len(recv[p]')]
             IN /\ client._private_key' = None =>
                     CallOutcome(f.method, wire).bad
                /\ client._private_key' # None =>
                     /\ f.ctx = "phase1"
                     /\ ~CallOutcome(f.method, wire).bad
                     /\ client._private_key' = PrivateKey(NanoCall(f.method, wire).ret)
                     /\ stack[p]'[Len(stack[p]')].ctx = "phase2" ]_vars

C10_Witness ==
  /\ ~Idle(1)
  /\ stack[1][Len(stack[1])].ctx = "phase2"
  /\ result[1].keyAtStart # None
  /\ client._private_key # result[1].keyAtStart

C10_WitnessCleared ==
  /\ Done(1)
  /\ result[1].keyAtStart # None
  /\ client._private_key = None

(* the request caller p posted in this step, if it posted one *)
Posted(p) == sent[p]' # sent[p] /\ sent[p]' # <<>>

(* C11: a call() that fails after a successful login clears the private     *)
(* key and nothing else, so logged_in stays true with the private key      *)
(* unset; logged_in goes from true to false only in a step that begins a    *)
(* login() attempt, that is, posts the phase-one Login request of login().  *)
C11_LoggedInStale ==
  [][ /\ \A p \in active :
           (Received(p) /\ CallOutcome(stack[p][Len(stack[p])].method,
                                       recv[p]'[Len(recv[p]')]).bad) =>
             /\ client' = [client EXCEPT !._private_key = None]
             /\ client'.logged_in = client.logged_in
      /\ (client.logged_in /\ ~client'.logged_in) =>
           \E p \in active :
             /\ Posted(p)
             /\ sent[p]'[Len(sent[p]')].ctx = "phase1" ]_vars

C11_Witness ==
  /\ Done(1)
  /\ DeviceCallError(result[1])
  /\ result[1].op = "call"
  /\ result[1].keyAtStart # None
  /\ client.logged_in
  /\ client._private_key = None

(* the i-th request of caller p was answered by a failure of call() *)
Failed(p, i) == CallOutcome(sent[p][i].method, recv[p][i]).exc # "none"

(* C12: within one call() the request of the method is sent at most once,   *)
(* no request follows a failed one, at most one answer of an operation is   *)
(* a failure, and an operation that ended has no request pending.           *)
C12_NoRetry ==
  \A p \in active :
    /\ Cardinality({i \in 1..Len(sent[p]) : sent[p][i].ctx = "top"}) <= 1
    /\ \A i \in 1..Len(recv[p]) :
         Failed(p, i) =>
           /\ i = Len(sent[p])
           /\ Done(p)
           /\ result[p].exc \notin {"none", "running"}
    /\ Done(p) => Len(sent[p]) = Len(recv[p])

C12_Witness ==
  /\ Done(1)
  /\ result[1].op = "call"
  /\ Len(sent[1]) = 4
  /\ sent[1][4].ctx = "top"
  /\ Failed(1, 4)

(* the token of a request of method m signed with key k at time ts *)
TokenFor(k, ts, m) == <<"hmac", k, <<ts, "\"", ACTION_BASE_URL, m, "\"">>>>

(* C13: for a phase-one response (Challenge c, PublicKey k) and password p  *)
(* the private key is HMAC(k + p, c), the phase-two LoginPassword is        *)
(* HMAC(private key, c), and the phase-two request and every later signed   *)
(* request, until an error clears the key, carry the token                 *)
(* HMAC(private key, timestamp "ACTION_BASE_URL method") of their own       *)
(* method.                                                                  *)
C13_KeyDerivation ==
  \A p \in active :
    /\ \A i \in 1..Len(sent[p]) :
         sent[p][i].ctx = "phase2" =>
           LET resp == Parsed(p, i - 1).ret.v
               key == <<"hmac", <<resp.PublicKey, password>>, resp.Challenge>>
           IN /\ sent[p][i - 1].ctx = "phase1"
              /\ sent[p][i].key = key
              /\ sent[p][i].kwargs.LoginPassword = <<"hmac", key, resp.Challenge>>
              /\ \A j \in i..Len(sent[p]) :
                   /\ sent[p][j].key = key
                   /\ sent[p][j].headers.HNAP_AUTH =
                        Some(<<TokenFor(key, sent[p][j].now, sent[p][j].method),
                               sent[p][j].now>>)
              /\ (~Done(p) \/ result[p].exc = "none") => client._private_key = key
    /\ (result[p].keyAtStart # None /\ sent[p] # <<>>) =>
         /\ sent[p][1].key = result[p].keyAtStart
         /\ sent[p][1].headers.HNAP_AUTH =
              Some(<<TokenFor(result[p].keyAtStart, sent[p][1].now, sent[p][1].method),
                     sent[p][1].now>>)

C13_Witness ==
  /\ Done(1)
  /\ result[1].exc = "none"
  /\ Len(sent[1]) = 4
  /\ sent[1][2].ctx = "phase2"
  /\ sent[1][4].ctx = "top"
  /\ sent[1][4].now > sent[1][2].now
  /\ Parsed(1, 1).ret.v.Challenge = "C2"

(* the parsed document of a response that arrived and was XML *)
IsXml(wire) == wire.net = "ok" /\ wire.text.xml

HasPath(doc, method) ==
  /\ "soap:Envelope" \in DOMAIN doc
  /\ "soap:Body" \in DOMAIN doc["soap:Envelope"]
  /\ (method \o "Response") \in DOMAIN doc["soap:Envelope"]["soap:Body"]

(* C14: NanoSOAPClient.call raises its transport error whenever the parsed  *)
(* response has no 'soap:Envelope' key, returns exactly the value at        *)
(* soap:Envelope -> soap:Body -> method + 'Response' when that is there,    *)
(* and returns nothing else; a call() whose response has no envelope never  *)
(* returns a result.                                                        *)
C14_EnvelopeRequired ==
  \A p \in active : \A i \in 1..Len(recv[p]) :
    LET wire == recv[p][i]
        m == sent[p][i].method
        t == Parsed(p, i)
    IN /\ (IsXml(wire) /\ "soap:Envelope" \notin DOMAIN wire.text.doc) =>
            /\ t.exc = "Exception"
            /\ t.why = "probably a bad response"
            /\ i = Len(recv[p])
            /\ Done(p)
            /\ DeviceCallError(result[p])
       /\ (IsXml(wire) /\ HasPath(wire.text.doc, m)) =>
            /\ t.exc = "none"
            /\ t.ret = wire.text.doc["soap:Envelope"]["soap:Body"][m \o "Response"]
       /\ t.exc = "none" => (IsXml(wire) /\ HasPath(wire.text.doc, m))
       /\ (Done(p) /\ i = Len(recv[p]) /\ result[p].op = "call"
             /\ result[p].exc = "none") =>
            /\ IsXml(wire) /\ HasPath(wire.text.doc, m)
            /\ result[p].ret = wire.text.doc["soap:Envelope"]["soap:Body"][m \o "Response"]

C14_Witness ==
  /\ Done(1)
  /\ result[1].keyAtStart # None
  /\ IsXml(recv[1][Len(recv[1])])
  /\ "soap:Envelope" \notin DOMAIN recv[1][Len(recv[1])].text.doc
  /\ DeviceCallError(result[1])

(* C15: settings and actions are populated only after a successful login:   *)
(* whenever settings or actions is non-empty, logged_in has been set to     *)
(* true before.                                                             *)
C15_CachePopulatedAfterLogin ==
  (client.settings # None \/ ~ActionsEmpty(client)) => everLoggedIn

(* caller p received, in this step, a phase-two answer that accepts the     *)
(* credentials                                                              *)
Accepted(p) ==
  /\ Received(p)
  /\ stack[p][Len(stack[p])].ctx = "phase2"
  /\ LET o == CallOutcome("Login", recv[p]'[Len(recv[p]')])
     IN /\ o.exc = "none"
        /\ "LoginResult" \in DOMAIN o.ret.v
        /\ o.ret.v.LoginResult \in {"success", "SUCCESS", "Success"}

(* caller p received, in this step, a GetDeviceSettings answer from which   *)
(* the action list was taken                                                *)
Fetched(p) ==
  /\ Received(p)
  /\ stack[p][Len(stack[p])].ctx = "settings"
  /\ LET o == CallOutcome("GetDeviceSettings", recv[p]'[Len(recv[p]')])
     IN /\ o.exc = "none"
        /\ "SOAPActions" \in DOMAIN o.ret.v
        /\ o.ret.v.SOAPActions.t = "dict"
  /\ client'.actions # None
  /\ client'.settings # None

(* the cached action list is None or has no element *)
NoCachedActions == client.actions = None \/ Len(client.actions[1]) = 0

(* C16: after an accepted phase two, login() requests GetDeviceSettings if  *)
(* and only if the cached action list is empty, GetDeviceSettings is        *)
(* requested at no other point, and logged_in becomes true only in the      *)
(* step in which that request succeeded or was skipped; a non-empty cached  *)
(* action list stays non-empty.                                             *)
C16_SettingsFetchedOnce ==
  [][ \A p \in active :
        /\ Accepted(p) =>
             /\ NoCachedActions <=>
                  (Posted(p) /\ sent[p]'[Len(sent[p]')].method = "GetDeviceSettings")
             /\ ~NoCachedActions => client'.logged_in
        /\ (Posted(p) /\ sent[p]'[Len(sent[p]')].method = "GetDeviceSettings") =>
             (Accepted(p) /\ NoCachedActions
                /\ sent[p]'[Len(sent[p]')].ctx = "settings")
        /\ (~client.logged_in /\ client'.logged_in /\ Received(p)) =>
             \/ Fetched(p)
             \/ Accepted(p) /\ ~NoCachedActions
        /\ ~NoCachedActions => ~NoCachedActions' ]_vars

C16_Witness ==
  /\ result[1].op = "call"
  /\ result[1].prev # "none"
  /\ Len(sent[1]) = 3
  /\ sent[1][2].ctx = "phase2"
  /\ sent[1][3].ctx = "top"
  /\ client.actions # None
  /\ client.logged_in

(* caller p is inside a login handshake: its pending request is a phase-one *)
(* or phase-two Login                                                       *)
InHandshake(p) ==
  /\ ~Idle(p)
  /\ stack[p][Len(stack[p])].ctx \in {"phase1", "phase2"}

(* C17: no single-flight guard: with interleaved callers, every call() of a *)
(* method other than 'Login' that found _private_key unset starts its own   *)
(* login() with a phase-one request, whether or not another caller's login  *)
(* is in flight; two handshakes can be in flight on the client at once.     *)
C17_NoSingleFlight ==
  \A p \in active :
    LazyCall(p) => /\ sent[p] # <<>>
                   /\ IsPhaseOne(sent[p][1])
                   /\ sent[p][1].ctx = "phase1"

C17_Witness ==
  /\ active = Callers
  /\ \A p \in Callers : LazyCall(p) /\ InHandshake(p)
  /\ \E p \in Callers : stack[p][Len(stack[p])].ctx = "phase2"

(* C18: with a single caller, logged_in is true only when both actions and  *)
(* settings have been cached (neither is None).                             *)
C18_LoggedInImpliesCached ==
  (Cardinality(active) = 1 /\ client.logged_in) =>
    (client.actions # None /\ client.settings # None)

C18_Witness ==
  /\ Done(1)
  /\ result[1].op = "login"
  /\ result[1].exc = "none"
  /\ client.logged_in
  /\ client.settings # None
  /\ Len(sent[1]) = 3
  /\ sent[1][3].method = "GetDeviceSettings"

(* request r carries the cookie and the private key of one phase-one Login  *)
(* response that some caller received                                       *)
FromOneHandshake(r) ==
  \E q \in active : \E j \in 1..Len(recv[q]) :
    /\ sent[q][j].ctx = "phase1"
    /\ Answered(q, j)
    /\ r.key = PrivateKey(Parsed(q, j).ret)
    /\ r.headers.Cookie = Some("uid=" \o Parsed(q, j).ret.v.Cookie)

Session(c) ==
  <<c._private_key, c._cookie, c.logged_in, c.actions, c.settings>>

(* caller p begins, in this step, a call() of a method other than 'Login'   *)
(* with the private key set                                                 *)
BeginsKeyedCall(p) ==
  /\ Idle(p)
  /\ stack'[p] # <<>>
  /\ result'[p].op = "call"
  /\ result'[p].method # "Login"
  /\ client._private_key # None

(* caller p returns, in this step, from a call() of a method other than     *)
(* 'Login' that began with the private key set                              *)
ReturnsKeyedCall(p) ==
  /\ Received(p)
  /\ result[p].op = "call"
  /\ result[p].method # "Login"
  /\ result[p].keyAtStart # None
  /\ result'[p].exc = "none"

(* C20: a call() of a method other than 'Login' that starts with            *)
(* _private_key set and succeeds sends exactly one request, the method's,   *)
(* and leaves _private_key, _cookie, logged_in, actions and settings        *)
(* unchanged; only _auth_token, _timestamp and the headers change.          *)
C20_KeyedCallFrame ==
  [][ \A p \in active :
        /\ BeginsKeyedCall(p) =>
             /\ Len(sent'[p]) = 1
             /\ sent'[p][1].method = result'[p].method
             /\ sent'[p][1].ctx = "top"
             /\ Session(client') = Session(client)
        /\ ReturnsKeyedCall(p) =>
             /\ Len(sent[p]) = 1
             /\ sent' = sent
             /\ client' = client
             /\ headers' = headers
             /\ Done(p)' ]_vars

C20_Witness ==
  /\ Done(1)
  /\ result[1].op = "call"
  /\ result[1].method # "Login"
  /\ result[1].keyAtStart # None
  /\ result[1].exc = "none"
  /\ Len(sent[1]) = 1
  /\ client._auth_token = TokenFor(client._private_key, client._timestamp[1],
                                   result[1].method)

====
